---- MODULE Spec2Model ----
(***************************************************************************)
(* Healthcare Facility Locator (analysisapp.py).                           *)
(*                                                                         *)
(* The Streamlit script is re-run from top to bottom on every widget       *)
(* interaction.  One re-run ("render pass") is modelled as the chain       *)
(*   idle -> geocode -> button -> fetch* -> overlay -> store -> display    *)
(* whose steps are the consecutive blocks of the script.  The widgets and  *)
(* st.session_state survive between passes; every other variable is a      *)
(* local of the pass.  Coordinates are fixed-point integers (1e-4 degree). *)
(***************************************************************************)
EXTENDS Integers, Sequences, FiniteSets, TLC

VARIABLES
    location_query,     \* st.text_input("Search by Location:")
    care_type,          \* st.selectbox("Type of Care:")
    selected_state,     \* st.selectbox("Select a State for Boundary Analysis:")
    lat_input,          \* st.number_input("Latitude")
    lon_input,          \* st.number_input("Longitude")
    session_map,        \* st.session_state["map"]
    session_facilities, \* st.session_state["facilities"]
    pc,                 \* position of the running render pass in the script
    clicked,            \* value of st.button("Search") in this pass
    latitude,           \* script variable latitude
    longitude,          \* script variable longitude
    m,                  \* folium map being built by the Search handler
    state_geojson,      \* simplified boundary handed to the fetch
    facilities,         \* rows accumulated by the paginated fetch
    offset,             \* offset of the next places request
    requests,           \* places requests issued in this pass, in order
    responses,          \* places responses received in this pass, in order
    geocode_response,   \* geocoding response received in this pass, None if no call
    messages,           \* st.error / st.write calls of this pass, in order
    displayed           \* scene handed to st_folium by the last finished pass

vars == <<location_query, care_type, selected_state, lat_input, lon_input,
          session_map, session_facilities, pc, clicked, latitude, longitude,
          m, state_geojson, facilities, offset, requests, responses,
          geocode_response, messages, displayed>>

widgets == <<location_query, care_type, selected_state, lat_input, lon_input>>
session == <<session_map, session_facilities>>
fetch_locals == <<state_geojson, facilities, offset, requests, responses>>

----------------------------------------------------------------------------
\* Bounds of the model.
MaxPages == 2       \* the provider answers at most this many non-empty pages
MaxPageLen == 2     \* features per page returned by the provider

\* Program constants.
limit == 100
DefaultLatitude == 385449
DefaultLongitude == 0 - 1217405
ZoomState == 6
ZoomPoint == 12
HttpOk == 200

None == [t |-> "None"]
Num(n) == [t |-> "num", v |-> n]

\* Python truthiness of a value that is None or a number.
Truthy(x) == x.t = "num" /\ x.v # 0

\* dict.get(key, default)
Get(d, k, default) == IF k \in DOMAIN d THEN d[k] ELSE default

CARE_TYPES ==
    [k \in {"All Healthcare", "Pharmacy", "Hospital", "Clinic", "Dentist",
            "Rehabilitation", "Emergency", "Veterinary"} |->
        CASE k = "All Healthcare" -> "healthcare"
          [] k = "Pharmacy"       -> "healthcare.pharmacy"
          [] k = "Hospital"       -> "healthcare.hospital"
          [] k = "Clinic"         -> "healthcare.clinic"
          [] k = "Dentist"        -> "healthcare.dentist"
          [] k = "Rehabilitation" -> "healthcare.rehabilitation"
          [] k = "Emergency"      -> "healthcare.emergency"
          [] k = "Veterinary"     -> "healthcare.veterinary"]

----------------------------------------------------------------------------
\* Inputs of the model: what the user can enter and what the providers answer.
Queries == {"", "Sacramento, CA"}
CareChoices == {"", "Pharmacy"}
StateChoices == {"", "California"}
CoordInputs == {<<DefaultLatitude, DefaultLongitude>>, <<100000, 200000>>}
Statuses == {HttpOk, 500}

\* results arrays of the geocoding provider
GeoResults ==
    { <<>>,
      <<[lat |-> 385816, lng |-> 0 - 1214944], [lat |-> 1, lng |-> 1]>>,
      <<[lat |-> 0, lng |-> 67000]>>,
      <<[lat |-> 514779, lng |-> 0]>> }

\* The j-th item of the places provider: coordinates are [lon, lat]; name and
\* formatted are absent for some items; a malformed item has no coordinates.
ProviderFeature(j, malformed) ==
    [properties |->
        IF j % 2 = 0 THEN [name |-> "Mercy Clinic", formatted |-> "1 Main St"]
        ELSE [city |-> "Davis"],
     geometry |->
        [coordinates |-> IF malformed THEN <<>>
                         ELSE <<0 - (1200000 + j), 300000 + j>>]]

\* A page of n items starting at offset off; the last one possibly malformed.
ProviderPage(off, n, malformed) ==
    [i \in 1..n |-> ProviderFeature(off + i - 1, malformed /\ i = n)]

----------------------------------------------------------------------------
\* folium objects
Map(lat, lon, zoom) ==
    [location |-> <<lat, lon>>, zoom_start |-> zoom, children |-> <<>>]

Marker(lat, lon, popup, color) ==
    [kind |-> "Marker", location |-> <<lat, lon>>, popup |-> popup, color |-> color]

GeoJson(data, name) == [kind |-> "GeoJson", data |-> data, name |-> name]

add_to(child, map) == [map EXCEPT !.children = Append(@, child)]

----------------------------------------------------------------------------
\* st.error / st.write: the fixed text, and the number and the string that
\* the f-string interpolates (0 and "" when it has none).
Error(text, n, detail) == [level |-> "error", text |-> text, n |-> n, detail |-> detail]
Write(text, n, detail) == [level |-> "write", text |-> text, n |-> n, detail |-> detail]

\* lines 51-60: one feature of a page parsed into a row.  coordinates[1] of
\* the 0-based Python list is the 2nd element, coordinates[0] the 1st.
FeatureRaises(feature) ==
    Len(Get(Get(feature, "geometry", <<>>), "coordinates", <<>>)) < 2

\* Variant: the two axes read in the wrong order.
Facility_SwappedAxes(feature) ==
    LET properties == Get(feature, "properties", <<>>)
        geometry == Get(feature, "geometry", <<>>)
    IN  [name |-> Get(properties, "name", "Unknown"),
         address |-> Get(properties, "formatted", "N/A"),
         latitude |-> Get(geometry, "coordinates", <<>>)[1],
         longitude |-> Get(geometry, "coordinates", <<>>)[2]]

Facility(feature) ==
    LET properties == Get(feature, "properties", <<>>)
        geometry == Get(feature, "geometry", <<>>)
    IN  [name |-> Get(properties, "name", "Unknown"),
         address |-> Get(properties, "formatted", "N/A"),
         latitude |-> Get(geometry, "coordinates", <<>>)[2],
         longitude |-> Get(geometry, "coordinates", <<>>)[1]]

\* lines 51-60: the rows of a whole page, in page order.
ParsePage(features) == [i \in 1..Len(features) |-> Facility(features[i])]

PageRaises(features) == \E i \in 1..Len(features) : FeatureRaises(features[i])

\* lines 38-44: the body of one places request.
Params(category, geojson, off) ==
    [categories |-> category,
     filter |-> [boundary |-> [geojson |-> geojson]],
     limit |-> limit,
     offset |-> off]

\* lines 67-73: simplify_geojson with its default tolerance (0.01 degree).
simplify_geojson(geojson) == [geojson EXCEPT !.tolerance = 100]

\* line 124: the selected rows of state_boundaries as GeoJSON.
geo_interface(name) ==
    [type |-> "FeatureCollection", NAME |-> name, tolerance |-> 0]

\* str.strip() on the strings of the model.
Strip(s) == IF s = " " THEN "" ELSE s

\* Variant: the region check left out.
IsSelected_Always(s) == TRUE

\* line 122: selected_state and selected_state.strip()
IsSelected(s) == s # "" /\ Strip(s) # ""

\* lines 81-91: get_lat_lon_from_query on the provider's response.
get_lat_lon_from_query(response) ==
    IF response.status = HttpOk /\ response.results # <<>>
    THEN [ret |-> <<Num(response.results[1].lat), Num(response.results[1].lng)>>,
          out |-> <<>>]
    ELSE [ret |-> <<None, None>>,
          out |-> <<Error("Location not found. Please try again.", 0, "")>>]

\* lines 165-170: the scene shown while no search has stored a map.
default_map(lat, lon) ==
    add_to(Marker(lat, lon, "Current Location", "red"), Map(lat, lon, ZoomPoint))

\* lines 147-152: one blue marker per row of the table, in row order.
FacilityMarkers(table) ==
    [i \in 1..Len(table) |->
        Marker(table[i].latitude, table[i].longitude,
               [name |-> table[i].name, address |-> table[i].address], "blue")]

\* Variant: each page replaces the table instead of extending it.
Accumulate_Replace(table, rows) == rows

\* line 60: facilities.append(facility) for each row of the page, in order.
Accumulate(table, rows) == table \o rows

\* Variant: the offset is never advanced.
NextOffset_Stuck(off) == off

\* line 61: offset += limit
NextOffset(off) == off + limit

\* Variant: the accumulated rows are dropped on a non-success status.
TableOnErrorStatus_Discard(table) == <<>>

\* lines 62-65: on a non-success status the loop is left with break and the
\* rows accumulated so far are what line 65 returns.
TableOnErrorStatus(table) == table

\* Variant: a non-success status is not reported.
FetchErrorMessages_Silent(status) == <<>>

\* line 63: the status code is shown to the user.
FetchErrorMessages(status) ==
    <<Error("Error fetching data from Geoapify", status, "")>>

\* Variant: a failed lookup zeroes the coordinate.
ResolvedCoordinate_Zeroed(current, ret) ==
    IF Truthy(ret[1]) /\ Truthy(ret[2]) THEN <<ret[1].v, ret[2].v>> ELSE <<0, 0>>

\* lines 114-116: the geocoded pair replaces the input fields' pair only if
\* both of its members are truthy.
ResolvedCoordinate(current, ret) ==
    IF Truthy(ret[1]) /\ Truthy(ret[2]) THEN <<ret[1].v, ret[2].v>> ELSE current

----------------------------------------------------------------------------
Init ==
    /\ location_query = ""
    /\ care_type = ""
    /\ selected_state = ""
    /\ lat_input = DefaultLatitude
    /\ lon_input = DefaultLongitude
    /\ session_map = None
    /\ session_facilities = <<>>
    /\ pc = "geocode"
    /\ clicked = FALSE
    /\ latitude = DefaultLatitude
    /\ longitude = DefaultLongitude
    /\ m = None
    /\ state_geojson = None
    /\ facilities = <<>>
    /\ offset = 0
    /\ requests = <<>>
    /\ responses = <<>>
    /\ geocode_response = None
    /\ messages = <<>>
    /\ displayed = None

\* lines 101-110: a new run of the script reads the widgets; every script
\* variable of the previous run is gone.
StartPass(click) ==
    /\ pc' = "geocode"
    /\ clicked' = click
    /\ latitude' = lat_input'
    /\ longitude' = lon_input'
    /\ m' = None
    /\ state_geojson' = None
    /\ facilities' = <<>>
    /\ offset' = 0
    /\ requests' = <<>>
    /\ responses' = <<>>
    /\ geocode_response' = None
    /\ messages' = <<>>
    /\ UNCHANGED <<session, displayed>>

ChangeQuery ==
    /\ pc = "idle"
    /\ \E q \in Queries \ {location_query} : location_query' = q
    /\ UNCHANGED <<care_type, selected_state, lat_input, lon_input>>
    /\ StartPass(FALSE)

ChangeCareType ==
    /\ pc = "idle"
    /\ \E c \in CareChoices \ {care_type} : care_type' = c
    /\ UNCHANGED <<location_query, selected_state, lat_input, lon_input>>
    /\ StartPass(FALSE)

ChangeState ==
    /\ pc = "idle"
    /\ \E s \in StateChoices \ {selected_state} : selected_state' = s
    /\ UNCHANGED <<location_query, care_type, lat_input, lon_input>>
    /\ StartPass(FALSE)

ChangeCoordinates ==
    /\ pc = "idle"
    /\ \E c \in CoordInputs \ {<<lat_input, lon_input>>} :
          lat_input' = c[1] /\ lon_input' = c[2]
    /\ UNCHANGED <<location_query, care_type, selected_state>>
    /\ StartPass(FALSE)

ClickSearch ==
    /\ pc = "idle"
    /\ UNCHANGED widgets
    /\ StartPass(TRUE)

\* lines 112-117: the geocoding call and the use of its result.
Geocode ==
    /\ pc = "geocode"
    /\ IF location_query # ""
       THEN \E status \in Statuses, results \in GeoResults :
              LET response == [status |-> status,
                               results |-> IF status = HttpOk THEN results ELSE <<>>]
                  got == get_lat_lon_from_query(response)
                  lat == got.ret[1]
                  lon == got.ret[2]
                  coord == ResolvedCoordinate(<<latitude, longitude>>, got.ret)
              IN  /\ geocode_response' = response
                  /\ latitude' = coord[1]
                  /\ longitude' = coord[2]
                  /\ messages' = messages \o got.out \o
                        IF Truthy(lat) /\ Truthy(lon)
                        THEN <<Write("Using location", 0, location_query)>>
                        ELSE <<>>
       ELSE UNCHANGED <<geocode_response, messages, latitude, longitude>>
    /\ pc' = "button"
    /\ UNCHANGED <<widgets, session, clicked, m, fetch_locals, displayed>>

\* lines 119-128: the Search handler up to the call of the paginated fetch.
SearchButton ==
    /\ pc = "button"
    /\ IF ~clicked
       THEN /\ pc' = "display"
            /\ UNCHANGED <<m, messages, fetch_locals>>
       ELSE /\ m' = Map(latitude, longitude,
                        IF selected_state # "" THEN ZoomState ELSE ZoomPoint)
            /\ IF IsSelected(selected_state)
               THEN \E raises \in BOOLEAN :
                      IF raises
                      THEN /\ messages' = Append(messages,
                                Error("Failed to add state boundary or fetch facilities",
                                      0, "simplify"))
                           /\ pc' = "store"
                           /\ UNCHANGED fetch_locals
                      ELSE /\ state_geojson' =
                                simplify_geojson(geo_interface(selected_state))
                           /\ facilities' = <<>>
                           /\ offset' = 0
                           /\ pc' = "fetch"
                           /\ UNCHANGED <<messages, requests, responses>>
               ELSE /\ messages' = Append(messages,
                          Error("Please select a state for boundary analysis.", 0, ""))
                    /\ pc' = "store"
                    /\ UNCHANGED fetch_locals
    /\ UNCHANGED <<widgets, session, clicked, latitude, longitude,
                   geocode_response, displayed>>

\* lines 37-64: one iteration of the while loop of
\* fetch_healthcare_data_within_state_paginated.  The provider answers with a
\* status and a page; it has at most MaxPages non-empty pages.  The body of a
\* non-success answer is never read, so it is left empty.
FetchRequest ==
    /\ pc = "fetch"
    /\ \E status \in Statuses, n \in 0..MaxPageLen, malformed \in BOOLEAN :
         LET features == ProviderPage(offset, n, malformed)
             response == [status |-> status, features |-> features]
         IN  /\ n > 0 => (status = HttpOk /\ Len(requests) < MaxPages)
             /\ malformed => n > 0
             /\ requests' = Append(requests,
                    Params(Get(CARE_TYPES, care_type, "healthcare"),
                           state_geojson, offset))
             /\ responses' = Append(responses, response)
             /\ IF status = HttpOk
                THEN IF features = <<>>
                     THEN /\ pc' = "overlay"
                          /\ UNCHANGED <<facilities, offset, messages>>
                     ELSE IF PageRaises(features)
                     THEN /\ messages' = Append(messages,
                               Error("Failed to add state boundary or fetch facilities",
                                     0, "list index out of range"))
                          /\ facilities' = <<>>
                          /\ pc' = "store"
                          /\ UNCHANGED offset
                     ELSE /\ facilities' = Accumulate(facilities, ParsePage(features))
                          /\ offset' = NextOffset(offset)
                          /\ pc' = "fetch"
                          /\ UNCHANGED messages
                ELSE /\ messages' = messages \o FetchErrorMessages(status)
                     /\ facilities' = TableOnErrorStatus(facilities)
                     /\ pc' = "overlay"
                     /\ UNCHANGED offset
    /\ UNCHANGED <<widgets, session, clicked, latitude, longitude, m,
                   state_geojson, geocode_response, displayed>>

\* lines 130-152: the boundary overlay, then the table's markers.
AddOverlay ==
    /\ pc = "overlay"
    /\ LET withBoundary ==
              add_to(GeoJson(state_geojson, "Boundary: " \o selected_state), m)
       IN  IF facilities = <<>>
           THEN /\ messages' = Append(messages,
                     Error("No facilities found within the state boundary.", 0, ""))
                /\ m' = withBoundary
           ELSE /\ messages' = Append(messages,
                     Write("Found facilities within", Len(facilities), selected_state))
                /\ m' = [withBoundary EXCEPT
                            !.children = @ \o FacilityMarkers(facilities)]
    /\ pc' = "store"
    /\ UNCHANGED <<widgets, session, clicked, latitude, longitude,
                   fetch_locals, geocode_response, displayed>>

\* Variant: the scene is stored only when the Search raised no error.
Store_SkipOnFailure ==
    /\ pc = "store"
    /\ session_map' =
          IF \E i \in 1..Len(messages) : messages[i].level = "error"
          THEN session_map ELSE m
    /\ pc' = "display"
    /\ UNCHANGED <<widgets, session_facilities, clicked, latitude, longitude, m,
                   fetch_locals, geocode_response, messages, displayed>>

\* line 160: the handler's last statement.
Store ==
    /\ pc = "store"
    /\ session_map' = m
    /\ pc' = "display"
    /\ UNCHANGED <<widgets, session_facilities, clicked, latitude, longitude, m,
                   fetch_locals, geocode_response, messages, displayed>>

\* lines 162-171: the stored scene, or the default scene if there is none.
Display ==
    /\ pc = "display"
    /\ displayed' = IF session_map # None
                    THEN session_map
                    ELSE default_map(latitude, longitude)
    /\ pc' = "idle"
    /\ UNCHANGED <<widgets, session, clicked, latitude, longitude, m,
                   fetch_locals, geocode_response, messages>>

Next ==
    \/ ChangeQuery
    \/ ChangeCareType
    \/ ChangeState
    \/ ChangeCoordinates
    \/ ClickSearch
    \/ Geocode
    \/ SearchButton
    \/ FetchRequest
    \/ AddOverlay
    \/ Store
    \/ Display

Spec == Init /\ [][Next]_vars

\* The script runs without interruption: a started pass is carried through.
PassStep == Geocode \/ SearchButton \/ FetchRequest \/ AddOverlay \/ Store \/ Display

FairSpec == Spec /\ WF_vars(PassStep)

----------------------------------------------------------------------------
\* Vocabulary of the properties.

IsFacilityMarker(child) == child.kind = "Marker" /\ child.color = "blue"
IsCurrentMarker(child) == child.kind = "Marker" /\ child.color = "red"
IsOverlay(child) == child.kind = "GeoJson"

FacilityMarkersOf(scene) == SelectSeq(scene.children, IsFacilityMarker)
CurrentMarkersOf(scene) == SelectSeq(scene.children, IsCurrentMarker)
OverlaysOf(scene) == SelectSeq(scene.children, IsOverlay)

IsSuccess(response) == response.status = 200
IsNonEmptyPage(response) == IsSuccess(response) /\ response.features # <<>>
IsEmptyPage(response) == IsSuccess(response) /\ response.features = <<>>
EndsPagination(response) == ~IsSuccess(response) \/ response.features = <<>>

\* The features of the first k responses, page after page.
RECURSIVE FeaturesOf(_, _)
FeaturesOf(rs, k) ==
    IF k = 0 THEN <<>> ELSE FeaturesOf(rs, k - 1) \o rs[k].features

\* The handler of this pass is past line 160.
SearchStored == clicked /\ pc \in {"display", "idle"}

\* The fetch of this pass has returned a table to the handler.
FetchReturned == responses # <<>> /\ pc \in {"overlay", "store", "display", "idle"}
                 /\ ~PageRaises(responses[Len(responses)].features)

HasMessage(level, text) ==
    \E i \in 1..Len(messages) : messages[i].level = level /\ messages[i].text = text

\* The Search of this pass failed: provider error, exception, or no region.
SearchFailed ==
    \/ HasMessage("error", "Error fetching data from Geoapify")
    \/ HasMessage("error", "Failed to add state boundary or fetch facilities")
    \/ HasMessage("error", "Please select a state for boundary analysis.")

GeocodeFailed ==
    /\ geocode_response # None
    /\ (geocode_response.status # 200 \/ geocode_response.results = <<>>)

GeocodeSucceeded ==
    /\ geocode_response # None
    /\ geocode_response.status = 200
    /\ geocode_response.results # <<>>

----------------------------------------------------------------------------
\* C1: when the provider answers k non-empty successful pages and then one
\* empty successful page, exactly k+1 requests were issued, with offsets
\* 0, 100, ..., 100*k in that order, and the table holds one row per feature
\* of the k pages, in page order then within-page order.
C1_PaginationCollectsAllPages ==
    LET k == Len(responses) - 1
    IN  ( /\ responses # <<>>
          /\ IsEmptyPage(responses[k + 1])
          /\ \A i \in 1..k : IsNonEmptyPage(responses[i]) )
        => /\ pc # "fetch"
           /\ Len(requests) = k + 1
           /\ \A i \in 1..(k + 1) : requests[i].offset = 100 * (i - 1)
           /\ LET all == FeaturesOf(responses, k)
              IN  /\ Len(facilities) = Len(all)
                  /\ \A i \in 1..Len(all) :
                       /\ facilities[i].longitude = all[i].geometry.coordinates[1]
                       /\ facilities[i].latitude = all[i].geometry.coordinates[2]
                       /\ facilities[i].name =
                            Get(all[i].properties, "name", "Unknown")
                       /\ facilities[i].address =
                            Get(all[i].properties, "formatted", "N/A")

\* C1 witness: a full page, a short page, then the empty page.
C1_Witness ==
    /\ pc = "overlay"
    /\ Len(responses) = 3
    /\ IsNonEmptyPage(responses[1]) /\ Len(responses[1].features) = 2
    /\ IsNonEmptyPage(responses[2]) /\ Len(responses[2].features) = 1
    /\ IsEmptyPage(responses[3])
    /\ Len(facilities) = 3

\* C2: every scene displayed by a render pass holds exactly one "current
\* location" marker, placed at the coordinate the scene was built for.
C2_OneCurrentLocationMarker ==
    displayed # None =>
        /\ Len(CurrentMarkersOf(displayed)) = 1
        /\ CurrentMarkersOf(displayed)[1].location = displayed.location

\* A non-success status arrived after at least one accumulated page.
FailedAfterPages ==
    /\ Len(responses) >= 2
    /\ ~IsSuccess(responses[Len(responses)])

\* C3 as stated: after a non-success status that follows one or more
\* non-empty pages, the table returned is empty and the scene of that search
\* holds no facility marker.
C3_PartialPagesDiscarded ==
    FailedAfterPages =>
        /\ facilities = <<>>
        /\ (pc \in {"store", "display", "idle"} => FacilityMarkersOf(m) = <<>>)

\* C3 amended: after a non-success status that follows one or more non-empty
\* pages, the table returned holds exactly the rows of the pages accumulated
\* before it, in order, and the scene built and stored for that search holds
\* one facility marker per row.
C3_PartialPagesKept ==
    FailedAfterPages =>
        LET all == FeaturesOf(responses, Len(responses) - 1)
        IN  /\ pc # "fetch"
            /\ Len(requests) = Len(responses)
            /\ facilities # <<>>
            /\ Len(facilities) = Len(all)
            /\ \A i \in 1..Len(all) :
                 /\ facilities[i].longitude = all[i].geometry.coordinates[1]
                 /\ facilities[i].latitude = all[i].geometry.coordinates[2]
            /\ (pc \in {"store", "display", "idle"} =>
                    Len(FacilityMarkersOf(m)) = Len(facilities))
            /\ (pc \in {"display", "idle"} => session_map = m)

\* C3 witness: two pages were accumulated, the third request failed, and the
\* stored scene shows their markers.
C3_Witness ==
    /\ pc = "idle"
    /\ Len(responses) = 3
    /\ ~IsSuccess(responses[3])
    /\ Len(facilities) >= 2
    /\ Len(FacilityMarkersOf(session_map)) = Len(facilities)

\* C4 as stated: a failed Search leaves the stored scene as it was.
C4_FailedSearchKeepsScene ==
    [][(pc = "store" /\ SearchFailed) => session_map' = session_map]_vars

\* C4 amended: a failed Search still replaces the stored scene: line 160 stores
\* the map built by this Search (centred on the coordinate in effect), so the
\* stored scene is never absent afterwards; the facilities slot of the
\* session state is left as it was.
C4_FailedSearchStoresNewScene ==
    [][(pc = "store" /\ SearchFailed) =>
          /\ session_map' = m
          /\ session_map' # None
          /\ session_map'.location = <<latitude, longitude>>
          /\ session_facilities' = session_facilities]_vars

\* C4 witness: a failed Search has just replaced a different, earlier scene,
\* which is the one still on display.
C4_Witness ==
    /\ pc = "display"
    /\ clicked
    /\ SearchFailed
    /\ session_map = m
    /\ displayed # None
    /\ displayed # session_map
    /\ OverlaysOf(displayed) # <<>>

\* C5: a boundary search whose first page is successful and empty stores a
\* scene with the simplified boundary overlay and reports an empty table
\* without any provider error, whereas a search whose first request failed
\* reports the provider's status code.
C5_EmptyResultDistinctFromProviderError ==
    /\ (SearchStored /\ Len(responses) = 1 /\ IsEmptyPage(responses[1])) =>
          /\ session_map # None
          /\ Len(OverlaysOf(session_map)) = 1
          /\ OverlaysOf(session_map)[1].data =
                simplify_geojson(geo_interface(selected_state))
          /\ OverlaysOf(session_map)[1].data = requests[1].filter.boundary.geojson
          /\ facilities = <<>>
          /\ HasMessage("error", "No facilities found within the state boundary.")
          /\ ~HasMessage("error", "Error fetching data from Geoapify")
    /\ (SearchStored /\ Len(responses) = 1 /\ ~IsSuccess(responses[1])) =>
          \E i \in 1..Len(messages) :
              /\ messages[i].level = "error"
              /\ messages[i].text = "Error fetching data from Geoapify"
              /\ messages[i].n = responses[1].status

\* C5 witness: an empty first page was stored with its overlay.
C5_Witness ==
    /\ pc = "idle"
    /\ clicked
    /\ Len(responses) = 1
    /\ IsEmptyPage(responses[1])
    /\ Len(OverlaysOf(session_map)) = 1

\* C6: when the geocoding call fails (non-success status or no result), the
\* coordinate used by the rest of the pass is the pair of the input fields.
C6_GeocodeFailureKeepsInputs ==
    (GeocodeFailed /\ pc # "geocode") =>
        /\ latitude = lat_input
        /\ longitude = lon_input
        /\ HasMessage("error", "Location not found. Please try again.")
        /\ (m # None => m.location = <<lat_input, lon_input>>)

\* C6 witness: the geocoder failed in a pass that went on to build a map.
C6_Witness ==
    /\ GeocodeFailed
    /\ pc = "store"
    /\ m # None
    /\ lat_input = DefaultLatitude
    /\ lon_input = DefaultLongitude

\* C7: every parsed feature yields a row with latitude = coordinates[1] and
\* longitude = coordinates[0] (0-based), every row's marker is placed at
\* [latitude, longitude], and there are as many facility markers as rows.
C7_AxisOrderAndMarkers ==
    /\ FetchReturned =>
          LET all == FeaturesOf(responses, Len(responses) - 1)
          IN  /\ Len(facilities) = Len(all)
              /\ \A i \in 1..Len(all) :
                   /\ facilities[i].latitude = all[i].geometry.coordinates[2]
                   /\ facilities[i].longitude = all[i].geometry.coordinates[1]
    /\ (FetchReturned /\ pc \in {"store", "display", "idle"}) =>
          LET marks == FacilityMarkersOf(m)
          IN  /\ Len(marks) = Len(facilities)
              /\ \A i \in 1..Len(marks) :
                   marks[i].location =
                      <<facilities[i].latitude, facilities[i].longitude>>
              /\ (pc # "store" => session_map = m)

\* C7 witness: a stored scene with several facility markers.
C7_Witness ==
    /\ pc = "idle"
    /\ FetchReturned
    /\ Len(facilities) >= 3
    /\ Len(FacilityMarkersOf(session_map)) = Len(facilities)

\* C8: no request follows the first response that is a non-success status
\* or an empty successful page; successive offsets grow by exactly 100, so
\* none is requested twice; and a started fetch loop comes to an end.
C8_FetchStopsAndTerminates ==
    /\ [](/\ Len(requests) = Len(responses)
          /\ \A i \in 1..(Len(responses) - 1) : ~EndsPagination(responses[i])
          /\ (responses # <<>> /\ EndsPagination(responses[Len(responses)])
                => pc # "fetch")
          /\ \A i \in 1..(Len(requests) - 1) :
                requests[i + 1].offset = requests[i].offset + 100
          /\ \A i, j \in 1..Len(requests) :
                i # j => requests[i].offset # requests[j].offset)
    /\ (pc = "fetch" ~> pc # "fetch")

\* C8 witness: the loop has stopped on a non-success status after two pages.
C8_Witness ==
    /\ pc = "overlay"
    /\ Len(requests) = 3
    /\ requests[3].offset = 200
    /\ ~IsSuccess(responses[3])

C10_GeocodeSuccessSetsCoordinate ==
    (GeocodeSucceeded /\ pc # "geocode") =>
        /\ latitude = geocode_response.results[1].lat
        /\ longitude = geocode_response.results[1].lng

====
